---- MODULE Spec2Model ----
(***************************************************************************)
(* A model of ludusavi's command-line driver (src/cli.rs): the subject     *)
(* selection GameSubjects::new, and the function run for the backup,       *)
(* restore, backups and cloud upload/download subcommands, with the        *)
(* parallel fan-out over the selected games.                               *)
(*                                                                         *)
(* A Rust String is a sequence of byte codes, ordered as Rust orders       *)
(* strings (lexicographically by byte).                                    *)
(***************************************************************************)
EXTENDS Integers, Sequences, FiniteSets, TLC

\* ------------------------------------------------------------------ bounds

\* The longest list of requested games the model draws.
MaxRequested == 2

\* ----------------------------------------------------------------- strings

NameA == <<65>>           \* "A"
NameB == <<66>>           \* "B"
NameC == <<67>>           \* "C"
NameX == <<88>>           \* "X", never in the catalog
Str7 == <<55>>            \* "7"
Str42 == <<52, 50>>       \* "42"
StrPlus7 == <<43, 55>>    \* "+7"
Str99 == <<57, 57>>       \* "99", an id the manifest does not know

\* String's Ord: lexicographic by byte, a proper prefix first.
RECURSIVE StrLess(_, _)
StrLess(a, b) ==
    IF b = <<>> THEN FALSE
    ELSE IF a = <<>> THEN TRUE
    ELSE IF Head(a) # Head(b) THEN Head(a) < Head(b)
    ELSE StrLess(Tail(a), Tail(b))

StrLeq(a, b) == a = b \/ StrLess(a, b)

\* Vec::contains
Contains(seq, x) == \E i \in 1..Len(seq) : seq[i] = x

\* The elements of a sequence.
Range(seq) == {seq[i] : i \in 1..Len(seq)}

\* Sequences over S of length at most n.
SeqsUpTo(S, n) == UNION {[1..k -> S] : k \in 0..n}

\* One step of Vec<String>::sort: x goes after every element not greater
\* than it (a stable insertion).
RECURSIVE InsertName(_, _)
InsertName(sorted, x) ==
    IF sorted = <<>> THEN <<x>>
    ELSE IF StrLess(x, Head(sorted)) THEN <<x>> \o sorted
    ELSE <<Head(sorted)>> \o InsertName(Tail(sorted), x)

RECURSIVE SortNamesFrom(_, _)
SortNamesFrom(done, rest) ==
    IF rest = <<>> THEN done
    ELSE SortNamesFrom(InsertName(done, Head(rest)), Tail(rest))

\* The list left as pushed.
UnsortedNames(seq) == seq

\* Vec<String>::sort (lines 64-65).
SortNames(seq) == SortNamesFrom(<<>>, seq)

\* A u32 is held as its canonical decimal digits (no leading zero, "0" for
\* zero): u32::MAX is "4294967295".
U32MaxDigits == <<52, 50, 57, 52, 57, 54, 55, 50, 57, 53>>

IsDigit(c) == c >= 48 /\ c <= 57

RECURSIVE StripZeros(_)
StripZeros(s) ==
    IF Len(s) > 1 /\ Head(s) = 48 THEN StripZeros(Tail(s)) ELSE s

ParseErr == <<>>

\* str::parse::<u32> (line 41): an optional '+', then one or more decimal
\* digits, the value at most u32::MAX; ParseErr stands for Err.
ParseU32(s) ==
    LET digits == IF s # <<>> /\ Head(s) = 43 THEN Tail(s) ELSE s
        canon == StripZeros(digits)
    IN IF digits = <<>> \/ \E i \in 1..Len(digits) : ~IsDigit(digits[i]) THEN ParseErr
       ELSE IF Len(canon) > Len(U32MaxDigits) THEN ParseErr
       ELSE IF Len(canon) = Len(U32MaxDigits) /\ StrLess(U32MaxDigits, canon) THEN ParseErr
       ELSE canon

\* Manifest::map_steam_ids_to_names of the model's manifest: "A" has Steam
\* id 7 and "C" has Steam id 42; "B" has none.
SteamIdsToNames == (<<55>> :> NameA) @@ (<<52, 50>> :> NameC)

\* --------------------------------------------------------- GameSubjects

NoSubjects == [valid |-> <<>>, invalid |-> <<>>]

\* warn_deprecations (lines 70-74): whether the warning is printed.
warn_deprecations(by_steam_id) == by_steam_id

\* The loop with the requested string pushed to valid, not the name.
RECURSIVE PushIdString(_, _, _)
PushIdString(subjects, known, requested) ==
    IF requested = <<>> THEN subjects
    ELSE LET game == Head(requested)
             id == ParseU32(game)
             next == IF id # ParseErr /\ id \in DOMAIN SteamIdsToNames
                        /\ Contains(known, SteamIdsToNames[id])
                     THEN [subjects EXCEPT !.valid = Append(@, game)]
                     ELSE [subjects EXCEPT !.invalid = Append(@, game)]
         IN PushIdString(next, known, Tail(requested))

\* The by_steam_id loop (lines 40-53).
RECURSIVE PushBySteamId(_, _, _)
PushBySteamId(subjects, known, requested) ==
    IF requested = <<>> THEN subjects
    ELSE LET game == Head(requested)
             id == ParseU32(game)
             next == IF id # ParseErr /\ id \in DOMAIN SteamIdsToNames
                        /\ Contains(known, SteamIdsToNames[id])
                     THEN [subjects EXCEPT !.valid = Append(@, SteamIdsToNames[id])]
                     ELSE [subjects EXCEPT !.invalid = Append(@, game)]
         IN PushBySteamId(next, known, Tail(requested))

\* The by-name loop (lines 55-61).
RECURSIVE PushByName(_, _, _)
PushByName(subjects, known, requested) ==
    IF requested = <<>> THEN subjects
    ELSE LET game == Head(requested)
             next == IF Contains(known, game)
                     THEN [subjects EXCEPT !.valid = Append(@, game)]
                     ELSE [subjects EXCEPT !.invalid = Append(@, game)]
         IN PushByName(next, known, Tail(requested))

\* GameSubjects::new (lines 33-67).
GameSubjectsNew(known, requested, by_steam_id) ==
    LET pushed == IF requested = <<>> THEN [NoSubjects EXCEPT !.valid = known]
                  ELSE IF by_steam_id THEN PushBySteamId(NoSubjects, known, requested)
                  ELSE PushByName(NoSubjects, known, requested)
    IN [valid |-> SortNames(pushed.valid), invalid |-> SortNames(pushed.invalid)]

\* The flag with off winning over on.
negatable_flag_off_first(on, off, default) ==
    IF off THEN FALSE ELSE IF on THEN TRUE ELSE default

\* negatable_flag (lines 76-84).
negatable_flag(on, off, default) ==
    IF on THEN TRUE ELSE IF off THEN FALSE ELSE default

\* ------------------------------------------------------------ run: state

VARIABLES
    sub,                    \* the Subcommand given to run
    preview,                \* the subcommand's preview flag
    pc,                     \* where run is
    result,                 \* what run returned, once pc = "done"
    backup,                 \* restore's backup argument (a backup id or "None")
    games_specified,        \* line 166 / 367
    disabled,               \* the games the configuration disables
    subjects,               \* GameSubjects of the operation
    reporter,               \* the Reporter
    duplicate_detector,     \* the DuplicateDetector: the add_game calls made
    should_sync_cloud_after,
    syncs,                  \* the sync_cloud calls made, in order
    tasks,                  \* the fan-out: one task per element of subjects.valid
    info,                   \* the collected Vec
    cursor,                 \* the position of the sequential loops over info
    sort,                   \* the sort used (line 306 / 464)
    failed,                 \* line 98
    prepared,               \* whether prepare_backup_target was called
    pure,                    \* the inputs and output of a lone GameSubjects::new
    process,                \* the synchronizer subprocess of sync_cloud
    changes,                \* sync_cloud's change list (line 793)
    progress_bar,           \* the position of sync_cloud's progress bar
    retention,              \* the Retention given to BackupLayout::new
    mapping,                \* a game's backups: the fulls, each with its differentials
    limits,                 \* the configured retention and the backup command's limits
    calls,                  \* the back_up calls made on the game, in order
    cloud_args,             \* the cloud-sync flags and configuration, when given beforehand
    config,                 \* config.cloud.remote, in memory and as last saved
    cloud_set,              \* the cloud set command given
    modal,                  \* the modal on screen, its buttons and the last message emitted
    games_len,              \* games.len() of the restore, once line 362 has read it
    force,                  \* the force flag, once the confirmation has read it
    prompt                  \* the answer to the confirmation prompt, "none" if not shown

vars == <<sub, preview, pc, result, backup, games_specified, disabled, subjects,
          reporter, duplicate_detector, should_sync_cloud_after, syncs, tasks,
          info, cursor, sort, failed, prepared, pure, process, changes,
          progress_bar, retention, mapping, limits, calls, cloud_args, config,
          cloud_set, modal, games_len,
          force, prompt>>

Subcommands == {"backup", "restore", "backups", "cloud_upload", "cloud_download"}
GameCommands == {"backup", "restore", "backups"}
CloudCommands == {"cloud_upload", "cloud_download"}

\* The catalogs the model draws: all_games' keys (backup) or
\* layout.restorable_games() (restore, backups).
KnownChoices == {<<NameA, NameB>>, <<NameC, NameB, NameA>>}

\* The strings a request is made of.
RequestPool == {NameA, NameB, NameX, Str7}

\* The configurations of disabled games the model draws.
DisabledChoices == {{}, {NameA}}

BackupIds == {"id1", "id2"}

\* What a scan can find: whether ScanInfo::can_report_game holds, the bytes
\* it sums to and its change status.
ScanShapes == {[reportable |-> TRUE, size |-> 10, status |-> 1],
               [reportable |-> TRUE, size |-> 20, status |-> 0],
               [reportable |-> FALSE, size |-> 0, status |-> 0]}

NoScan == [reportable |-> FALSE, size |-> 0, status |-> 0, backup |-> "None", made |-> FALSE]

\* The backups scan_for_restoration may find with a shape: none, or one
\* with an id; the latest ("id1") when no backup id was asked for.
FoundBackups(sh, backup_arg) ==
    IF sh.reportable /\ sh.size = 20 THEN {"id1"}
    ELSE IF backup_arg = "None" THEN (IF sh.reportable THEN {"None", "id1"} ELSE {"None"})
    ELSE IF sh.reportable THEN {"None", "id1", "id2"}
    ELSE {"None", "id2"}

\* The ScanInfo values a task's scan may return: scan_game_for_backup
\* (line 235), scan_for_restoration (line 413), get_backups (line 534).
ScanChoices(s, backup_arg) ==
    {[reportable |-> sh[1].reportable, size |-> sh[1].size, status |-> sh[1].status,
      backup |-> sh[2], made |-> TRUE] :
        sh \in {p \in ScanShapes \X (BackupIds \cup {"None"}) :
                    IF s = "restore" THEN p[2] \in FoundBackups(p[1], backup_arg)
                    ELSE p[2] = "None"}}

\* What sync_cloud may return: Ok with no change, Ok with changes, the
\* error of validate_cloud_config (line 781), UnableToSynchronizeCloud
\* (lines 789, 812).
SyncOutcomes == {"ok_empty", "ok_changes", "err_config", "err_sync"}
SyncErrors == {"err_config", "err_sync", "err"}

\* What backup and restore tell apart in sync_cloud's result (lines
\* 208-219, 291, 391-400): Ok with no change, Ok with changes, Err(_).
MatchedOutcomes == {"ok_empty", "ok_changes", "err"}

NoResult == [tag |-> "None", games |-> <<>>]
Ok == [tag |-> "Ok", games |-> <<>>]
Err(tag) == [tag |-> tag, games |-> <<>>]
ErrUnrecognizedGames(games) == [tag |-> "CliUnrecognizedGames", games |-> games]

\* A failed sync_cloud taken for a success.
SyncErrorSwallowed(outcome) == Ok

\* The error a failed sync_cloud returns.
SyncError(outcome) ==
    IF outcome = "err_sync" THEN Err("UnableToSynchronizeCloud") ELSE Err("CloudConfigInvalid")

\* No subprocess: sync_cloud has not spawned one.
NoProcess == [status |-> "none", emitted |-> <<>>, read |-> 0]

\* cloud_progress_bar (lines 757-766): ProgressBar::new(100), at position 0.
NoProgress == [current |-> 0, max |-> 100]

\* Retention::default(): one full backup, no differential.
DefaultRetention == [full |-> 1, differential |-> 0]

\* An Option: None is the empty sequence, Some(v) the sequence of v alone.
None == <<>>
Some(v) == <<v>>

\* No full_limit, no differential_limit, the default configuration.
NoLimits == [config |-> DefaultRetention, full_limit |-> None, differential_limit |-> None]

\* The cloud_sync and no_cloud_sync flags, config.cloud.synchronize and
\* whether validate_cloud_config passes: here none set.
NoCloudArgs == [cloud_sync |-> FALSE, no_cloud_sync |-> FALSE, synchronize |-> FALSE,
                valid |-> FALSE]

\* A configuration with no remote, never saved by this run.
NoConfig == [remote |-> None, disk |-> None, saves |-> 0]

\* No cloud set command.
NoCloudSet == [choice |-> "none", needs_configuration |-> FALSE, fails |-> FALSE,
               before |-> None]

\* Message::Idle.
Idle == [kind |-> "Idle", preview |-> FALSE, roots |-> <<>>]

\* No modal on screen and no message emitted yet.
NoModal == [theme |-> [kind |-> "None", error |-> "", roots |-> <<>>], buttons |-> <<>>,
            pressed |-> "none", message |-> Idle]

NewReporter == [unknown_games |-> <<>>, cloud_conflict |-> FALSE,
                cloud_sync_failed |-> FALSE, games |-> <<>>, backups |-> <<>>,
                printed |-> "no"]

NoInfo == [idx |-> 0, name |-> <<>>, scan |-> NoScan, failed |-> FALSE,
           decision |-> "None", failure |-> "None", did |-> "none"]

PendingTask == [st |-> "pending", scan |-> NoScan, out |-> NoInfo]

NoSort == [key |-> "none", reversed |-> FALSE]
SortKeys == {"name", "size", "status"}

NoPure == [known |-> <<>>, requested |-> <<>>, by_steam_id |-> FALSE,
           out |-> NoSubjects, applied |-> FALSE, warned |-> FALSE]

\* run's state on entry (lines 91-99).
Init ==
    /\ sub \in Subcommands
    /\ preview \in BOOLEAN
    /\ pc = "load"
    /\ result = NoResult
    /\ backup = "None"
    /\ games_specified = FALSE
    /\ disabled = {}
    /\ subjects = NoSubjects
    /\ reporter = NewReporter
    /\ duplicate_detector = <<>>
    /\ should_sync_cloud_after = FALSE
    /\ syncs = <<>>
    /\ tasks = <<>>
    /\ info = <<>>
    /\ cursor = 0
    /\ sort = NoSort
    /\ failed = FALSE
    /\ prepared = FALSE
    /\ pure = NoPure
    /\ process = NoProcess
    /\ changes = <<>>
    /\ progress_bar = NoProgress
    /\ retention = DefaultRetention
    /\ mapping = <<>>
    /\ limits = NoLimits
    /\ calls = <<>>
    /\ cloud_args = NoCloudArgs
    /\ config = NoConfig
    /\ cloud_set = NoCloudSet
    /\ modal = NoModal
    /\ games_len = 0
    /\ force = FALSE
    /\ prompt = "none"

\* ------------------------------------------------------ run: the helpers

Done(r) ==
    /\ result' = r
    /\ pc' = "done"

\* Reporter::trip_unknown_games followed by Reporter::print_failure.
trip_unknown_games(r, games) == [r EXCEPT !.unknown_games = games, !.printed = "failure"]

\* Reporter::trip_cloud_conflict
trip_cloud_conflict(r) == [r EXCEPT !.cloud_conflict = TRUE]

\* Reporter::trip_cloud_sync_failed
trip_cloud_sync_failed(r) == [r EXCEPT !.cloud_sync_failed = TRUE]

\* Reporter::add_game's return value: false if the game's outcome carries a
\* failure.
ReporterAddGame(t) == ~t.failed

\* scan::compare_games: -1, 0 or 1 for Less, Equal, Greater on the key.
compare_games(key, t1, t2) ==
    CASE key = "name" -> IF StrLess(t1.name, t2.name) THEN -1
                         ELSE IF StrLess(t2.name, t1.name) THEN 1 ELSE 0
      [] key = "size" -> IF t1.scan.size < t2.scan.size THEN -1
                         ELSE IF t1.scan.size > t2.scan.size THEN 1 ELSE 0
      [] key = "status" -> IF t1.scan.status < t2.scan.status THEN -1
                           ELSE IF t1.scan.status > t2.scan.status THEN 1 ELSE 0

\* The check of invalid left out.
NeverInvalid(s) == FALSE

\* Line 168 / 369 / 520: the request names an unrecognized game.
HasInvalid(s) == s.invalid # <<>>

\* A backup id refused only with more than one requested game.
BackupIdWithManyGames(backup_arg, requested) ==
    backup_arg # "None" /\ Len(requested) > 1

\* Line 362: a backup id needs exactly one requested game.
BackupIdWithMultipleGames(backup_arg, requested) ==
    backup_arg # "None" /\ Len(requested) # 1

\* config.is_game_enabled_for_backup / _for_restore / _for_operation
IsGameEnabled(name) == name \notin disabled

\* The decision taken from the configuration alone.
DecisionByConfig(name) ==
    IF ~IsGameEnabled(name) THEN "Ignored" ELSE "Processed"

\* Lines 250-255 / 418-423.
Decision(name) ==
    IF ~IsGameEnabled(name) /\ ~games_specified THEN "Ignored" ELSE "Processed"

\* Finality::Final whatever the call.
FinalityFinal(p) == "Final"

\* The finality of the sync_cloud call before the fan-out (lines 205, 388).
PreviewFinality(p) == "Preview"

\* The finality of cloud upload and cloud download (lines 680, 704).
CloudFinality(p) == IF p THEN "Preview" ELSE "Final"

\* The upload kept after a preview that reported changes.
SyncAfterUnlessFailed(should, outcome) ==
    IF outcome \in SyncErrors THEN FALSE ELSE should

\* should_sync_cloud_after once the preview returned (lines 208-219).
SyncAfterPreview(should, outcome) ==
    IF outcome = "ok_empty" THEN should ELSE FALSE

\* A failed preview left unreported.
ReportPreviewConflictOnly(r, outcome) ==
    IF outcome = "ok_changes" THEN trip_cloud_conflict(r) ELSE r

\* The Reporter once the preview returned (lines 208-219 / 391-400).
ReportPreview(r, outcome) ==
    IF outcome = "ok_changes" THEN trip_cloud_conflict(r)
    ELSE IF outcome \in SyncErrors THEN trip_cloud_sync_failed(r)
    ELSE r

\* The fan-out left once every task has started.
NoTaskPending(ts) == \A i \in DOMAIN ts : ts[i].st # "pending"

\* The fan-out left once one task has returned.
AnyTaskDone(ts) == ts = <<>> \/ \E i \in DOMAIN ts : ts[i].st = "done"

\* collect() returns once every task of the parallel iterator has returned
\* (lines 279, 448, 537).
AllTasksDone(ts) == \A i \in DOMAIN ts : ts[i].st = "done"

\* The items kept in the order the tasks return.
FirstEmptySlot(v) == CHOOSE i \in DOMAIN v : v[i] = NoInfo /\ \A j \in 1..(i - 1) : v[j] # NoInfo

CollectInCompletionOrder(v, i, t) == [v EXCEPT ![FirstEmptySlot(v)] = t]

\* collect() of an indexed parallel iterator: the item of task i is element
\* i of the Vec (lines 224-279, 405-448, 528-537).
Collect(v, i, t) == [v EXCEPT ![i] = t]

\* One step of the stable sort_by of lines 307 / 465.
RECURSIVE InsertInfo(_, _, _)
InsertInfo(sorted, t, key) ==
    IF sorted = <<>> THEN <<t>>
    ELSE IF compare_games(key, t, Head(sorted)) < 0 THEN <<t>> \o sorted
    ELSE <<Head(sorted)>> \o InsertInfo(Tail(sorted), t, key)

RECURSIVE SortInfoFrom(_, _, _)
SortInfoFrom(done, rest, key) ==
    IF rest = <<>> THEN done
    ELSE SortInfoFrom(InsertInfo(done, Head(rest), key), Tail(rest), key)

\* Vec::reverse
Reverse(v) == [i \in 1..Len(v) |-> v[Len(v) + 1 - i]]

\* Lines 306-312 / 464-470: info.sort_by(compare_games), then reverse.
SortedInfo(v, s) ==
    IF s.reversed THEN Reverse(SortInfoFrom(<<>>, v, s.key))
    ELSE SortInfoFrom(<<>>, v, s.key)

\* The failed flag dropped.
AlwaysOk(f) == Ok

\* Lines 721-725.
FinalStatus(f) == IF f THEN Err("SomeEntriesFailed") ELSE Ok

\* ------------------------------------------------------ run: the actions

runVars == <<sub, preview, backup, games_specified, disabled, subjects, reporter,
             duplicate_detector, should_sync_cloud_after, syncs, tasks, info, cursor,
             sort, failed, prepared, pure, modal, games_len, force, prompt>>
cloudVars == <<cloud_args, config, cloud_set>>
layoutVars == <<retention, mapping, limits, calls>>
sideVars == <<pure, process, changes, progress_bar, retention, mapping, limits, calls,
              cloudVars, modal>>
argVars == <<sub, preview, sideVars, force, prompt>>
subjectVars == <<backup, games_specified, disabled, subjects, games_len>>
fanVars == <<tasks, info>>
postVars == <<duplicate_detector, cursor, sort, failed>>

\* Config::load, Manifest::update_mut and Manifest::load (lines 92-97,
\* 130-138, 337-340, 505-508): a failure is returned at once.
Load ==
    /\ pc = "load"
    /\ \E ok \in BOOLEAN :
        IF ok
        THEN /\ pc' = IF sub = "backups" THEN "subjects" ELSE "confirm"
             /\ UNCHANGED result
        ELSE Done(Err("ResourceUnavailable"))
    /\ UNCHANGED <<argVars, subjectVars, fanVars, postVars, reporter,
                   should_sync_cloud_after, syncs, prepared>>

\* The confirmation asked for whenever the run is not a preview.
ConfirmUnlessPreview(is_preview, is_forced) == ~is_preview

\* Lines 148, 347 and 739: whether the confirmation prompt is shown.
NeedsConfirmation(is_preview, is_forced) == ~is_preview /\ ~is_forced

\* A backup that goes from the confirmation to its subjects.
AfterConfirmUnprepared(subcommand) ==
    CASE subcommand \in {"backup", "restore"} -> "subjects"
      [] OTHER -> "cloud_sync"

\* What follows the confirmation: prepare_backup_target in a backup (line
\* 159), the subjects in a restore (line 358), sync_cloud in cloud upload
\* and cloud download (lines 692, 709).
AfterConfirm(subcommand) ==
    CASE subcommand = "backup" -> "prepare"
      [] subcommand = "restore" -> "subjects"
      [] OTHER -> "cloud_sync"

\* The confirmation (lines 148-157, 347-356; ask, lines 738-747). The force
\* flag is read only when the run is not a preview.
Confirm ==
    /\ pc = "confirm"
    /\ \E is_forced \in (IF preview THEN {FALSE} ELSE BOOLEAN), answer \in {"Ok(true)", "Ok(false)", "Err"} :
        /\ force' = is_forced
        /\ IF NeedsConfirmation(preview, is_forced)
           THEN /\ prompt' = answer
                /\ CASE answer = "Ok(true)" -> pc' = AfterConfirm(sub) /\ UNCHANGED result
                     [] answer = "Ok(false)" -> Done(Ok)
                     [] OTHER -> Done(Err("CliUnableToRequestConfirmation"))
           ELSE /\ pc' = AfterConfirm(sub)
                /\ UNCHANGED <<result, prompt>>
    /\ UNCHANGED <<sub, preview, sideVars, subjectVars, fanVars, postVars, reporter,
                   should_sync_cloud_after, syncs, prepared>>

\* Lines 159-161.
PrepareBackupTarget ==
    /\ pc = "prepare"
    /\ IF preview
       THEN /\ pc' = "subjects"
            /\ UNCHANGED <<result, prepared>>
       ELSE /\ prepared' = TRUE
            /\ \E ok \in BOOLEAN :
                IF ok THEN pc' = "subjects" /\ UNCHANGED result
                ELSE Done(Err("BackupTargetUnusable"))
    /\ UNCHANGED <<argVars, subjectVars, fanVars, postVars, reporter,
                   should_sync_cloud_after, syncs>>

\* Lines 166-174 (backup), 358-375 (restore), 517-526 (backups).
BuildSubjects ==
    /\ pc = "subjects"
    /\ \E known \in KnownChoices, requested \in SeqsUpTo(RequestPool, MaxRequested),
          by_steam_id \in BOOLEAN,
          backup_arg \in (IF sub = "restore" THEN {"None", "id1"} ELSE {"None"}),
          dis \in (IF sub = "backups" THEN {{}} ELSE DisabledChoices) :
        IF sub = "restore" /\ BackupIdWithMultipleGames(backup_arg, requested)
        THEN /\ Done(Err("CliBackupIdWithMultipleGames"))
             /\ backup' = backup_arg
             /\ games_len' = Len(requested)
             /\ UNCHANGED <<games_specified, disabled, subjects, fanVars, reporter>>
        ELSE LET s == GameSubjectsNew(known, requested, by_steam_id)
             IN /\ subjects' = s
                /\ backup' = backup_arg
                /\ games_len' = IF sub = "restore" THEN Len(requested) ELSE 0
                /\ games_specified' = (requested # <<>>)
                /\ disabled' = dis
                /\ IF HasInvalid(s)
                   THEN /\ reporter' = trip_unknown_games(reporter, s.invalid)
                        /\ Done(ErrUnrecognizedGames(s.invalid))
                        /\ UNCHANGED fanVars
                   ELSE /\ tasks' = [i \in 1..Len(s.valid) |-> PendingTask]
                        /\ info' = [i \in 1..Len(s.valid) |-> NoInfo]
                        /\ pc' = IF sub = "backups" THEN "fanout" ELSE "cloud_pre"
                        /\ UNCHANGED <<result, reporter>>
    /\ UNCHANGED <<argVars, postVars, should_sync_cloud_after, syncs, prepared>>

NewSync(direction, finality) ==
    [direction |-> direction, finality |-> finality, result |-> "running"]

Returned(log, outcome) == [log EXCEPT ![Len(log)].result = outcome]

\* Lines 193-207 (backup), 377-390 (restore): the call of sync_cloud.
CloudPreview(a) ==
    LET cloud_sync == negatable_flag(a.cloud_sync, a.no_cloud_sync, a.synchronize /\ a.valid)
    IN /\ should_sync_cloud_after' = (sub = "backup" /\ cloud_sync)
       /\ IF cloud_sync
          THEN /\ syncs' = Append(syncs, NewSync("Download", PreviewFinality(preview)))
               /\ pc' = "cloud_pre_wait"
          ELSE /\ pc' = "fanout"
               /\ UNCHANGED syncs
       /\ UNCHANGED <<argVars, subjectVars, fanVars, postVars, reporter, result, prepared>>

\* The same, with the flags and the configuration read there.
CloudPreviewStart ==
    /\ pc = "cloud_pre"
    /\ \E a \in [cloud_sync : BOOLEAN, no_cloud_sync : BOOLEAN, synchronize : BOOLEAN,
                  valid : BOOLEAN] : CloudPreview(a)

\* Lines 208-219 (backup), 391-400 (restore): sync_cloud has returned.
CloudPreviewReturn ==
    /\ pc = "cloud_pre_wait"
    /\ \E outcome \in MatchedOutcomes :
        /\ syncs' = Returned(syncs, outcome)
        /\ should_sync_cloud_after' = SyncAfterPreview(should_sync_cloud_after, outcome)
        /\ reporter' = ReportPreview(reporter, outcome)
    /\ pc' = "fanout"
    /\ UNCHANGED <<argVars, subjectVars, fanVars, postVars, result, prepared>>

\* Lines 425-427: the scanned backup is not the one asked for.
RestoreMismatch(backup_arg, scan) ==
    backup_arg # "None" /\ scan.backup # "None" /\ scan.backup # backup_arg

\* The task of element i returns t as its item.
TaskReturns(i, t) ==
    /\ tasks' = [tasks EXCEPT ![i] = [st |-> "done", scan |-> t.scan, out |-> t]]
    /\ info' = Collect(info, i, t)

\* The parallel iterator starts the task of element i (lines 229, 410, 532).
TaskStart(i) ==
    /\ pc = "fanout"
    /\ tasks[i].st = "pending"
    /\ tasks' = [tasks EXCEPT ![i].st = "scan"]
    /\ UNCHANGED <<argVars, subjectVars, postVars, reporter, result, pc, info,
                   should_sync_cloud_after, syncs, prepared>>

\* The scan of task i returns (lines 233-256, 412-440, 533-535): the task
\* goes on to back_up or restore, or returns without.
TaskScan(i) ==
    /\ tasks[i].st = "scan"
    /\ \E scan \in ScanChoices(sub, backup) :
        LET name == subjects.valid[i]
            decision == IF sub = "backups" THEN "None" ELSE Decision(name)
            plain == [idx |-> i, name |-> name, scan |-> scan, failed |-> FALSE,
                      decision |-> decision, failure |-> "None", did |-> "none"]
        IN CASE sub = "backup" ->
                  IF preview \/ decision = "Ignored"
                  THEN TaskReturns(i, plain)
                  ELSE /\ tasks' = [tasks EXCEPT ![i] = [st |-> "op", scan |-> scan, out |-> NoInfo]]
                       /\ UNCHANGED info
             [] sub = "restore" ->
                  IF RestoreMismatch(backup, scan)
                  THEN TaskReturns(i, [plain EXCEPT !.failure = "CliInvalidBackupId"])
                  ELSE IF scan.backup = "None" \/ preview \/ decision = "Ignored"
                  THEN TaskReturns(i, plain)
                  ELSE /\ tasks' = [tasks EXCEPT ![i] = [st |-> "op", scan |-> scan, out |-> NoInfo]]
                       /\ UNCHANGED info
             [] OTHER -> TaskReturns(i, plain)
    /\ UNCHANGED <<argVars, subjectVars, postVars, reporter, result, pc,
                   should_sync_cloud_after, syncs, prepared>>

\* back_up (lines 272-274) or layout.restore (line 443) of task i returns,
\* with or without failed entries.
TaskOp(i) ==
    /\ tasks[i].st = "op"
    /\ \E f \in BOOLEAN :
        TaskReturns(i, [idx |-> i, name |-> subjects.valid[i], scan |-> tasks[i].scan,
                        failed |-> f, decision |-> Decision(subjects.valid[i]),
                        failure |-> "None",
                        did |-> IF sub = "backup" THEN "back_up" ELSE "restore"])
    /\ UNCHANGED <<argVars, subjectVars, postVars, reporter, result, pc,
                   should_sync_cloud_after, syncs, prepared>>

\* collect() returns (lines 279, 448, 537).
Join ==
    /\ pc = "fanout"
    /\ AllTasksDone(tasks)
    /\ pc' = CASE sub = "backup" -> "cloud_post"
               [] sub = "restore" -> "dedup"
               [] OTHER -> "report"
    /\ cursor' = 1
    /\ UNCHANGED <<argVars, subjectVars, fanVars, reporter, result, duplicate_detector,
                   sort, failed, should_sync_cloud_after, syncs, prepared>>

\* Lines 282-290.
CloudUploadStart ==
    /\ pc = "cloud_post"
    /\ IF should_sync_cloud_after
       THEN /\ syncs' = Append(syncs, NewSync("Upload", "Final"))
            /\ pc' = "cloud_post_wait"
       ELSE /\ pc' = "dedup"
            /\ UNCHANGED syncs
    /\ UNCHANGED <<argVars, subjectVars, fanVars, postVars, reporter, result,
                   should_sync_cloud_after, prepared>>

\* Lines 291-293.
CloudUploadReturn ==
    /\ pc = "cloud_post_wait"
    /\ \E outcome \in MatchedOutcomes :
        /\ syncs' = Returned(syncs, outcome)
        /\ reporter' = IF outcome \in SyncErrors THEN trip_cloud_sync_failed(reporter)
                       ELSE reporter
    /\ pc' = "dedup"
    /\ UNCHANGED <<argVars, subjectVars, fanVars, postVars, result,
                   should_sync_cloud_after, prepared>>

\* One iteration of the loop of lines 296-304 / 451-462.
DuplicateStep ==
    /\ pc = "dedup"
    /\ cursor <= Len(info)
    /\ LET t == info[cursor]
       IN IF ~t.scan.reportable
          THEN /\ cursor' = cursor + 1
               /\ UNCHANGED <<duplicate_detector, result, pc>>
          ELSE IF sub = "restore" /\ t.failure # "None"
          THEN /\ Done(Err(t.failure))
               /\ UNCHANGED <<duplicate_detector, cursor>>
          ELSE /\ duplicate_detector' =
                     Append(duplicate_detector,
                            [name |-> t.name, enabled |-> IsGameEnabled(t.name)])
               /\ cursor' = cursor + 1
               /\ UNCHANGED <<result, pc>>
    /\ UNCHANGED <<argVars, subjectVars, fanVars, reporter, sort, failed,
                   should_sync_cloud_after, syncs, prepared>>

\* Lines 306-312 / 464-470.
SortInfo ==
    /\ pc = "dedup"
    /\ cursor > Len(info)
    /\ \E key \in SortKeys, reversed \in BOOLEAN :
        /\ sort' = [key |-> key, reversed |-> reversed]
        /\ info' = SortedInfo(info, [key |-> key, reversed |-> reversed])
    /\ pc' = "report"
    /\ cursor' = 1
    /\ UNCHANGED <<argVars, subjectVars, tasks, reporter, result, duplicate_detector,
                   failed, should_sync_cloud_after, syncs, prepared>>

\* One iteration of the loop of lines 314-318 / 472-476 / 539-541.
ReportStep ==
    /\ pc = "report"
    /\ cursor <= Len(info)
    /\ LET t == info[cursor]
       IN IF sub = "backups"
          THEN /\ reporter' = [reporter EXCEPT !.backups = Append(@, t.name)]
               /\ UNCHANGED failed
          ELSE /\ reporter' = [reporter EXCEPT !.games = Append(@, t)]
               /\ failed' = (failed \/ ~ReporterAddGame(t))
    /\ cursor' = cursor + 1
    /\ UNCHANGED <<argVars, subjectVars, fanVars, result, pc, duplicate_detector, sort,
                   should_sync_cloud_after, syncs, prepared>>

\* reporter.print (lines 319, 477, 542) and run's result (lines 721-725).
Finish ==
    /\ pc = "report"
    /\ cursor > Len(info)
    /\ reporter' = [reporter EXCEPT !.printed = "print"]
    /\ Done(FinalStatus(failed))
    /\ UNCHANGED <<argVars, subjectVars, fanVars, postVars,
                   should_sync_cloud_after, syncs, prepared>>

\* cloud upload / cloud download: the call of sync_cloud (lines 691, 715).
CloudSyncStart ==
    /\ pc = "cloud_sync"
    /\ \E requested \in SeqsUpTo(RequestPool, MaxRequested) :
        syncs' = Append(syncs, NewSync(IF sub = "cloud_upload" THEN "Upload" ELSE "Download",
                                       CloudFinality(preview)))
    /\ pc' = "cloud_sync_wait"
    /\ UNCHANGED <<argVars, subjectVars, fanVars, postVars, reporter, result,
                   should_sync_cloud_after, prepared>>

\* sync_cloud has returned: its error is returned, or the changes are
\* reported (lines 691-692, 715-716) and run ends (lines 721-725).
CloudSyncReturn ==
    /\ pc = "cloud_sync_wait"
    /\ \E outcome \in SyncOutcomes :
        /\ syncs' = Returned(syncs, outcome)
        /\ IF outcome \in SyncErrors THEN Done(SyncError(outcome))
           ELSE Done(FinalStatus(failed))
    /\ UNCHANGED <<argVars, subjectVars, fanVars, postVars, reporter,
                   should_sync_cloud_after, prepared>>

Next ==
    \/ Load
    \/ Confirm
    \/ PrepareBackupTarget
    \/ BuildSubjects
    \/ CloudPreviewStart
    \/ CloudPreviewReturn
    \/ \E i \in DOMAIN tasks : TaskStart(i)
    \/ \E i \in DOMAIN tasks : TaskScan(i)
    \/ \E i \in DOMAIN tasks : TaskOp(i)
    \/ Join
    \/ CloudUploadStart
    \/ CloudUploadReturn
    \/ DuplicateStep
    \/ SortInfo
    \/ ReportStep
    \/ Finish
    \/ CloudSyncStart
    \/ CloudSyncReturn

Spec == Init /\ [][Next]_vars

\* -------------------------------- backup and restore from the cloud preview

\* How many games the operation has.
MaxGames == 1

\* A backup or restore at line 193 / 377: the subjects are built (games
\* named or not), a backup that is not a preview has prepared its target,
\* and the flags and the cloud configuration are known.
InitCloud ==
    /\ sub \in {"backup", "restore"}
    /\ preview \in BOOLEAN
    /\ pc = "cloud_pre"
    /\ result = NoResult
    /\ backup = "None"
    /\ games_specified \in BOOLEAN
    /\ disabled = {}
    /\ subjects \in {[valid |-> SubSeq(<<NameA, NameB, NameC>>, 1, n), invalid |-> <<>>] :
                        n \in 0..MaxGames}
    /\ games_specified => subjects.valid # <<>>
    /\ reporter = NewReporter
    /\ duplicate_detector = <<>>
    /\ should_sync_cloud_after = FALSE
    /\ syncs = <<>>
    /\ tasks = [i \in 1..Len(subjects.valid) |-> PendingTask]
    /\ info = [i \in 1..Len(subjects.valid) |-> NoInfo]
    /\ cursor = 0
    /\ sort = NoSort
    /\ failed = FALSE
    /\ prepared = (sub = "backup" /\ ~preview)
    /\ pure = NoPure
    /\ process = NoProcess
    /\ changes = <<>>
    /\ progress_bar = NoProgress
    /\ retention = DefaultRetention
    /\ mapping = <<>>
    /\ limits = NoLimits
    /\ calls = <<>>
    /\ cloud_args \in [cloud_sync : BOOLEAN, no_cloud_sync : BOOLEAN, synchronize : BOOLEAN,
                        valid : BOOLEAN]
    /\ config = NoConfig
    /\ cloud_set = NoCloudSet
    /\ modal = NoModal
    /\ games_len = IF sub = "restore" /\ games_specified THEN Len(subjects.valid) ELSE 0
    /\ force = ~preview
    /\ prompt = "none"

\* Lines 193-207 (backup), 377-390 (restore), with the flags given.
CloudPreviewGiven ==
    /\ pc = "cloud_pre"
    /\ CloudPreview(cloud_args)

NextCloud ==
    \/ CloudPreviewGiven
    \/ CloudPreviewReturn
    \/ \E i \in DOMAIN tasks : TaskStart(i)
    \/ \E i \in DOMAIN tasks : TaskScan(i)
    \/ \E i \in DOMAIN tasks : TaskOp(i)
    \/ Join
    \/ CloudUploadStart
    \/ CloudUploadReturn

SpecCloud == InitCloud /\ [][NextCloud]_vars

\* ------------------------------------------- GameSubjects::new on its own

\* The catalogs: every list of distinct names among "A", "B", "C".
PureKnown ==
    {k \in SeqsUpTo({NameA, NameB, NameC}, 3) :
        \A i, j \in 1..Len(k) : i # j => k[i] # k[j]}

PureRequestPool == {NameA, NameB, NameC, NameX, Str7, Str42, StrPlus7, Str99}

InitSubjects ==
    /\ pure \in {[known |-> k, requested |-> r, by_steam_id |-> b,
                  out |-> NoSubjects, applied |-> FALSE, warned |-> FALSE] :
                    k \in PureKnown, r \in SeqsUpTo(PureRequestPool, MaxRequested),
                    b \in BOOLEAN}
    /\ sub = "backups"
    /\ preview = FALSE
    /\ pc = "pure"
    /\ result = NoResult
    /\ backup = "None"
    /\ games_specified = FALSE
    /\ disabled = {}
    /\ subjects = NoSubjects
    /\ reporter = NewReporter
    /\ duplicate_detector = <<>>
    /\ should_sync_cloud_after = FALSE
    /\ syncs = <<>>
    /\ tasks = <<>>
    /\ info = <<>>
    /\ cursor = 0
    /\ sort = NoSort
    /\ failed = FALSE
    /\ prepared = FALSE
    /\ process = NoProcess
    /\ changes = <<>>
    /\ progress_bar = NoProgress
    /\ retention = DefaultRetention
    /\ mapping = <<>>
    /\ limits = NoLimits
    /\ calls = <<>>
    /\ cloud_args = NoCloudArgs
    /\ config = NoConfig
    /\ cloud_set = NoCloudSet
    /\ modal = NoModal
    /\ games_len = 0
    /\ force = FALSE
    /\ prompt = "none"

\* warn_deprecations, then GameSubjects::new with the inputs drawn, as run
\* calls them (lines 126 and 167, 333 and 368, 500 and 519).
ApplyGameSubjects ==
    /\ pc = "pure"
    /\ ~pure.applied
    /\ pure' = [pure EXCEPT !.out = GameSubjectsNew(pure.known, pure.requested, pure.by_steam_id),
                            !.applied = TRUE,
                            !.warned = warn_deprecations(pure.by_steam_id)]
    /\ UNCHANGED <<sub, preview, pc, result, subjectVars, fanVars, postVars, reporter,
                   should_sync_cloud_after, syncs, prepared, process, changes,
                   progress_bar, retention, mapping, limits, calls, cloudVars, modal,
                   force, prompt>>

NextSubjects == ApplyGameSubjects

SpecSubjects == InitSubjects /\ [][NextSubjects]_vars

\* ------------------------------------------------- sync_cloud on its own

\* How many events the synchronizer emits at most.
MaxEvents == 3

Change(c) == [kind |-> "Change", change |-> c, current |-> 0, max |-> 0]
Progress(c, m) == [kind |-> "Progress", change |-> "", current |-> c, max |-> m]

\* RcloneProcessEvent: the events the synchronizer is given to emit.
EventPool == {Change("c1"), Change("c2"), Progress(1, 2)}

\* The run variables at rest, for a function called on its own.
RunAtRest ==
    /\ sub = "cloud_upload"
    /\ preview = FALSE
    /\ backup = "None"
    /\ games_specified = FALSE
    /\ disabled = {}
    /\ subjects = NoSubjects
    /\ reporter = NewReporter
    /\ duplicate_detector = <<>>
    /\ should_sync_cloud_after = FALSE
    /\ syncs = <<>>
    /\ tasks = <<>>
    /\ info = <<>>
    /\ cursor = 0
    /\ sort = NoSort
    /\ failed = FALSE
    /\ prepared = FALSE
    /\ pure = NoPure
    /\ modal = NoModal
    /\ games_len = 0
    /\ force = FALSE
    /\ prompt = "none"

InitSync ==
    /\ RunAtRest
    /\ pc = "sync_cloud"
    /\ result = NoResult
    /\ process = NoProcess
    /\ changes = <<>>
    /\ progress_bar = NoProgress
    /\ retention = DefaultRetention
    /\ mapping = <<>>
    /\ limits = NoLimits
    /\ calls = <<>>
    /\ cloud_args = NoCloudArgs
    /\ config = NoConfig
    /\ cloud_set = NoCloudSet

\* RcloneProcess::events: the events emitted and not yet handed out.
events(p) == SubSeq(p.emitted, p.read + 1, Len(p.emitted))

\* RcloneProcess::succeeded: None while the subprocess runs, then its exit.
succeeded(p) ==
    CASE p.status = "exited_ok" -> "Some(Ok)"
      [] p.status = "exited_err" -> "Some(Err)"
      [] OTHER -> "None"

\* The for loop over the drained events (lines 796-806): the change list.
RECURSIVE PushChanges(_, _)
PushChanges(list, evs) ==
    IF evs = <<>> THEN list
    ELSE PushChanges(IF Head(evs).kind = "Change" THEN Append(list, Head(evs).change) ELSE list,
                     Tail(evs))

\* The for loop over the drained events (lines 796-806): the progress bar.
RECURSIVE SetProgress(_, _)
SetProgress(bar, evs) ==
    IF evs = <<>> THEN bar
    ELSE SetProgress(IF Head(evs).kind = "Progress"
                     THEN [current |-> Head(evs).current, max |-> Head(evs).max]
                     ELSE bar,
                     Tail(evs))

\* The match that takes a running subprocess for one that succeeded.
MatchSucceededEarly(s) ==
    CASE s = "Some(Err)" -> "return Err"
      [] OTHER -> "return Ok"

\* The match on process.succeeded() (lines 807-815).
MatchSucceeded(s) ==
    CASE s = "Some(Ok)" -> "return Ok"
      [] s = "Some(Err)" -> "return Err"
      [] OTHER -> "continue"

\* sync_cloud up to the loop (lines 776-793): the configuration is
\* validated and the synchronizer spawned; either may fail.
SyncCloudEnter ==
    /\ pc = "sync_cloud"
    /\ \E started \in {"ok", "invalid", "unable"} :
          CASE started = "invalid" ->
                 /\ Done(Err("CloudConfigInvalid"))
                 /\ UNCHANGED process
            [] started = "unable" ->
                 /\ Done(Err("UnableToSynchronizeCloud"))
                 /\ UNCHANGED process
            [] OTHER ->
                 /\ process' = [NoProcess EXCEPT !.status = "running"]
                 /\ pc' = "events"
                 /\ UNCHANGED result
    /\ UNCHANGED <<runVars, changes, progress_bar, layoutVars, cloudVars>>

\* The synchronizer writes one more line to its output.
ProcessEmit ==
    /\ process.status = "running"
    /\ Len(process.emitted) < MaxEvents
    /\ \E e \in EventPool : process' = [process EXCEPT !.emitted = Append(@, e)]
    /\ UNCHANGED <<pc, result, runVars, changes, progress_bar, layoutVars, cloudVars>>

\* The synchronizer exits, with success or not.
ProcessExit ==
    /\ process.status = "running"
    /\ \E status \in {"exited_ok", "exited_err"} : process' = [process EXCEPT !.status = status]
    /\ UNCHANGED <<pc, result, runVars, changes, progress_bar, layoutVars, cloudVars>>

\* The first half of the loop body (lines 795-806).
SyncEvents ==
    /\ pc = "events"
    /\ changes' = PushChanges(changes, events(process))
    /\ progress_bar' = SetProgress(progress_bar, events(process))
    /\ process' = [process EXCEPT !.read = Len(process.emitted)]
    /\ pc' = "succeeded"
    /\ UNCHANGED <<result, runVars, layoutVars, cloudVars>>

\* The second half of the loop body (lines 807-815).
SyncSucceeded ==
    /\ pc = "succeeded"
    /\ LET m == MatchSucceeded(succeeded(process))
       IN CASE m = "return Ok" -> Done(Ok)
            [] m = "return Err" -> Done(Err("UnableToSynchronizeCloud"))
            [] OTHER -> pc' = "events" /\ UNCHANGED result
    /\ UNCHANGED <<runVars, process, changes, progress_bar, layoutVars, cloudVars>>

NextSync ==
    \/ SyncCloudEnter
    \/ ProcessEmit
    \/ ProcessExit
    \/ SyncEvents
    \/ SyncSucceeded

SpecSync == InitSync /\ [][NextSync]_vars

\* The thread that runs sync_cloud keeps running.
SpecSyncFair == SpecSync /\ WF_vars(SyncEvents \/ SyncSucceeded)

\* ------------------------------------------------------------ the claims

\* How many times x occurs in a sequence.
Count(seq, x) == Cardinality({i \in 1..Len(seq) : seq[i] = x})

Ascending(seq) == \A i, j \in 1..Len(seq) : i < j => StrLeq(seq[i], seq[j])

GameTasks == sub \in {"backup", "restore"}

\* C1: for backup, restore and backups, when GameSubjects.invalid is not
\* empty run has returned UnrecognizedGames carrying exactly the invalid
\* names, the reporter's unknown_games holds those names, and no sync_cloud
\* call, no task (scan, back_up, restore), no DuplicateDetector or
\* Reporter.add_game call was made, the valid games included; and
\* UnrecognizedGames is returned in no other case.
C1_UnrecognizedGamesAbort ==
    /\ (sub \in GameCommands /\ subjects.invalid # <<>>) =>
          /\ pc = "done"
          /\ result = [tag |-> "CliUnrecognizedGames", games |-> subjects.invalid]
          /\ reporter.unknown_games = subjects.invalid
          /\ reporter.printed = "failure"
          /\ syncs = <<>>
          /\ tasks = <<>>
          /\ info = <<>>
          /\ duplicate_detector = <<>>
          /\ reporter.games = <<>>
          /\ reporter.backups = <<>>
    /\ result.tag = "CliUnrecognizedGames" => subjects.invalid # <<>>

\* A request with a recognized and an unrecognized game was refused.
C1_Witness ==
    /\ pc = "done"
    /\ result.tag = "CliUnrecognizedGames"
    /\ subjects.valid # <<>>
    /\ subjects.invalid # <<>>

\* C2: GameSubjects.valid holds no name twice, so no two tasks of one
\* fan-out are inside back_up or restore for the same game at the same time.
C2_OneTaskPerGame ==
    /\ \A i, j \in 1..Len(subjects.valid) : i # j => subjects.valid[i] # subjects.valid[j]
    /\ \A i, j \in DOMAIN tasks :
          (i # j /\ tasks[i].st = "op" /\ tasks[j].st = "op")
              => subjects.valid[i] # subjects.valid[j]

\* C10: GameSubjects::new without by_steam_id. With nothing requested,
\* valid is the known names and invalid is empty; otherwise every requested
\* occurrence of a name is in valid if the name is known and in invalid if
\* it is not, nothing else is in either, and valid's names are the requested
\* names that are known. Both lists are ascending.
C10_SubjectsByName ==
    (pure.applied /\ ~pure.by_steam_id) =>
        LET k == pure.known
            r == pure.requested
            o == pure.out
            names == Range(k) \cup Range(r) \cup Range(o.valid) \cup Range(o.invalid)
        IN /\ r = <<>> =>
                /\ o.invalid = <<>>
                /\ \A x \in names : Count(o.valid, x) = Count(k, x)
           /\ r # <<>> =>
                /\ \A x \in names :
                      /\ Count(o.valid, x) = IF x \in Range(k) THEN Count(r, x) ELSE 0
                      /\ Count(o.invalid, x) = IF x \in Range(k) THEN 0 ELSE Count(r, x)
                /\ Range(o.valid) = Range(r) \cap Range(k)
                /\ Len(o.valid) + Len(o.invalid) = Len(r)
           /\ Ascending(o.valid)
           /\ Ascending(o.invalid)

\* A known and an unknown name were requested, the known one not first in
\* the catalog's order.
C10_Witness ==
    /\ pure.applied
    /\ ~pure.by_steam_id
    /\ pure.requested = <<NameX, NameB>>
    /\ pure.known = <<NameC, NameB, NameA>>
    /\ pure.out = [valid |-> <<NameB>>, invalid |-> <<NameX>>]

EveryTaskReturned == \A i \in DOMAIN tasks : tasks[i].st = "done"
EveryTaskPending == \A i \in DOMAIN tasks : tasks[i].st = "pending"

\* The first sync_cloud call of a backup or restore returned this outcome.
PreviewGave(outcome) ==
    GameTasks /\ Len(syncs) >= 1 /\ syncs[1].result = outcome

\* C3: in a backup whose preview download reported a change, cloud_conflict
\* is set and the final upload is never started, while the fan-out is as in
\* any backup: once run is done every selected game was scanned, and was
\* backed up by back_up unless the run is a preview or the game is ignored
\* (line 256). A final upload was started only after a preview download
\* that returned Ok with no change.
C3_ConflictSuppressesUpload ==
    /\ (sub = "backup" /\ PreviewGave("ok_changes")) =>
          /\ reporter.cloud_conflict
          /\ ~should_sync_cloud_after
          /\ Len(syncs) = 1
          /\ pc \notin {"cloud_post_wait"}
          /\ pc = "done" =>
                /\ result.tag \in {"Ok", "SomeEntriesFailed"}
                /\ \A i \in DOMAIN tasks :
                      /\ tasks[i].st = "done"
                      /\ tasks[i].out.scan.made
                      /\ tasks[i].out.did = "back_up"
                            <=> (~preview /\ tasks[i].out.decision = "Processed")
    /\ (sub = "backup" /\ Len(syncs) >= 2) =>
          /\ syncs[1] = [direction |-> "Download", finality |-> "Preview", result |-> "ok_empty"]
          /\ syncs[2].direction = "Upload"
          /\ syncs[2].finality = "Final"

\* A backup of two games went through after a conflict, a game backed up.
C3_Witness ==
    /\ sub = "backup"
    /\ PreviewGave("ok_changes")
    /\ pc = "done"
    /\ Len(tasks) >= 2
    /\ \E i \in DOMAIN tasks : tasks[i].out.did = "back_up"

\* C4: a backup makes at most two sync_cloud calls and a restore at most
\* one; the first is the Download/Preview call, and while it runs no task
\* has started; a Final call is made only by a backup, as its second call,
\* an Upload, after the preview returned and every task returned.
C4_SyncCallOrder ==
    GameTasks =>
        /\ Len(syncs) <= IF sub = "backup" THEN 2 ELSE 1
        /\ \A k \in 1..Len(syncs) :
              /\ k = 1 =>
                    /\ syncs[k].direction = "Download"
                    /\ syncs[k].finality = "Preview"
                    /\ syncs[k].result = "running" => EveryTaskPending
              /\ k = 2 =>
                    /\ syncs[k].direction = "Upload"
                    /\ syncs[k].finality = "Final"
              /\ syncs[k].finality = "Final" =>
                    /\ sub = "backup"
                    /\ k = 2
                    /\ syncs[1].result # "running"
                    /\ EveryTaskReturned
        /\ ~EveryTaskPending => \A k \in 1..Len(syncs) : (k = 1 => syncs[k].result # "running")

\* A backup of two games made both calls.
C4_Witness ==
    /\ sub = "backup"
    /\ pc = "done"
    /\ Len(syncs) = 2
    /\ Len(tasks) >= 2

SomeSyncFailed == \E k \in 1..Len(syncs) : syncs[k].result \in {"err", "err_config", "err_sync"}

\* C5 as stated: whenever a sync_cloud call of the command failed, run's
\* result is an error.
C5_ErrorOnAnyCloudFailure ==
    (pc = "done" /\ SomeSyncFailed) => result.tag \notin {"Ok", "None"}

\* C5, amended: after a failed sync_cloud call, cloud upload and cloud
\* download return that call's error; backup and restore have
\* cloud_sync_failed set and never return the cloud error: their result is
\* Ok exactly when the games were reported and none of them failed.
C5_CloudFailureResult ==
    (pc = "done" /\ SomeSyncFailed) =>
        /\ sub \in CloudCommands =>
              result.tag = IF syncs[1].result = "err_sync" THEN "UnableToSynchronizeCloud"
                           ELSE "CloudConfigInvalid"
        /\ GameTasks =>
              /\ reporter.cloud_sync_failed
              /\ result.tag \in {"Ok", "SomeEntriesFailed", "CliInvalidBackupId"}
              /\ result.tag = "Ok" <=>
                    /\ reporter.printed = "print"
                    /\ \A j \in 1..Len(reporter.games) : ~reporter.games[j].failed

\* A backup whose final upload failed returned Ok.
C5_Witness ==
    /\ sub = "backup"
    /\ pc = "done"
    /\ Len(syncs) = 2
    /\ syncs[2].result = "err"
    /\ reporter.games # <<>>
    /\ result.tag = "Ok"

\* C6: when a backup or restore has reported (reporter.print was reached),
\* Reporter.add_game received every task's item exactly once, and run
\* returned SomeEntriesFailed if one of them carried a failure and Ok if
\* none did; during the reporting loop failed is set exactly when an item
\* delivered so far carried a failure.
C6_EveryResultReported ==
    /\ (GameTasks /\ pc = "done" /\ reporter.printed = "print") =>
          /\ Len(reporter.games) = Len(tasks)
          /\ {reporter.games[j].idx : j \in 1..Len(reporter.games)} = DOMAIN tasks
          /\ \A j \in 1..Len(reporter.games) :
                reporter.games[j] = tasks[reporter.games[j].idx].out
          /\ result.tag = IF \E j \in 1..Len(reporter.games) : reporter.games[j].failed
                          THEN "SomeEntriesFailed" ELSE "Ok"
    /\ (GameTasks /\ pc = "report") =>
          /\ Len(reporter.games) = cursor - 1
          /\ failed <=> \E j \in 1..Len(reporter.games) : reporter.games[j].failed
    /\ result.tag = "SomeEntriesFailed" => (GameTasks /\ reporter.printed = "print")

\* The first game delivered failed and a later one, delivered all the same,
\* did not.
C6_Witness ==
    /\ GameTasks
    /\ pc = "done"
    /\ Len(reporter.games) >= 2
    /\ reporter.games[1].failed
    /\ ~reporter.games[2].failed
    /\ result.tag = "SomeEntriesFailed"

\* C7: in a backup or restore whose preview sync_cloud failed,
\* cloud_sync_failed is set, no further sync_cloud call is made (the final
\* upload is skipped) and run does not return the cloud error: every task
\* runs, and the games are reported unless the restore returns
\* InvalidBackupId; when the final upload failed, cloud_sync_failed is set
\* and the games are reported; cloud upload and cloud download return
\* UnableToSynchronizeCloud when their synchronization failed.
C7_CloudFailureFatalOnlyAlone ==
    /\ PreviewGave("err") =>
          /\ reporter.cloud_sync_failed
          /\ ~should_sync_cloud_after
          /\ Len(syncs) = 1
          /\ pc \in {"fanout", "cloud_post", "dedup", "report", "done"}
          /\ pc = "done" =>
                /\ EveryTaskReturned
                /\ \A i \in DOMAIN tasks : tasks[i].out.scan.made
                /\ result.tag \in {"Ok", "SomeEntriesFailed", "CliInvalidBackupId"}
                /\ result.tag # "CliInvalidBackupId" =>
                      /\ reporter.printed = "print"
                      /\ Len(reporter.games) = Len(tasks)
    /\ (GameTasks /\ Len(syncs) = 2 /\ syncs[2].result = "err") =>
          /\ reporter.cloud_sync_failed
          /\ pc \in {"dedup", "report", "done"}
          /\ pc = "done" =>
                /\ result.tag \in {"Ok", "SomeEntriesFailed"}
                /\ reporter.printed = "print"
                /\ Len(reporter.games) = Len(tasks)
    /\ (sub \in CloudCommands /\ Len(syncs) = 1 /\ syncs[1].result = "err_sync") =>
          /\ pc = "done"
          /\ result.tag = "UnableToSynchronizeCloud"
    /\ result.tag = "UnableToSynchronizeCloud" => sub \in CloudCommands

\* A restore of two games reported both after its preview failed.
C7_Witness ==
    /\ sub = "restore"
    /\ PreviewGave("err")
    /\ pc = "done"
    /\ Len(reporter.games) >= 2
    /\ \E i \in DOMAIN tasks : tasks[i].out.did = "restore"

SomeTaskUnreturned == \E i \in DOMAIN tasks : tasks[i].st # "done"
SomeTaskRunning == \E i \in DOMAIN tasks : tasks[i].st \in {"scan", "op"}

\* C8 as stated: as long as a task has not returned (before or during the
\* fan-out) the Reporter and the DuplicateDetector are unwritten, and while
\* DuplicateDetector.add_game is being called Reporter.add_game was not.
C8_WritesOnlyAfterFanout ==
    /\ SomeTaskUnreturned => (reporter = NewReporter /\ duplicate_detector = <<>>)
    /\ pc = "dedup" => reporter.games = <<>>

\* C8, amended: DuplicateDetector.add_game and Reporter.add_game (and
\* add_backups) are called only after every task returned, in the loops
\* that follow the fan-out, every DuplicateDetector.add_game before the
\* first Reporter.add_game; the Reporter's trip flags are written before
\* the first task starts or after the last returned, never while a task
\* runs.
C8_AddGameOnlyAfterFanout ==
    [][/\ duplicate_detector' # duplicate_detector =>
            /\ pc = "dedup"
            /\ ~SomeTaskUnreturned
            /\ reporter.games = <<>>
       /\ (reporter'.games # reporter.games \/ reporter'.backups # reporter.backups) =>
            /\ pc = "report"
            /\ ~SomeTaskUnreturned
            /\ duplicate_detector' = duplicate_detector
       /\ reporter' # reporter => ~SomeTaskRunning
       /\ (SomeTaskRunning \/ SomeTaskRunning') =>
            (reporter' = reporter /\ duplicate_detector' = duplicate_detector)
      ]_vars

\* A backup tripped cloud_conflict before its fan-out and then fed two
\* games to the DuplicateDetector and to the Reporter.
C8_Witness ==
    /\ sub = "backup"
    /\ pc = "done"
    /\ reporter.cloud_conflict
    /\ Len(duplicate_detector) >= 2
    /\ Len(reporter.games) >= 2

\* C9: the sequence delivered to the Reporter is fixed by the tasks' items,
\* the sort key and the direction alone: it is a permutation of the items;
\* when sort.reversed is unset, an item comes before every item
\* compare_games puts after it, and items that compare equal come in the
\* order of subjects.valid; when sort.reversed is set it is that sequence
\* reversed. No completion order of the tasks enters.
C9_DeliveryOrder ==
    (GameTasks /\ pc \in {"report", "done"} /\ sort.key # "none") =>
        /\ Len(info) = Len(tasks)
        /\ {info[j].idx : j \in 1..Len(info)} = DOMAIN tasks
        /\ \A j \in 1..Len(info) : info[j] = tasks[info[j].idx].out
        /\ \A j, k \in 1..Len(info) :
              j < k =>
                LET c == compare_games(sort.key, info[j], info[k])
                IN IF sort.reversed
                   THEN c >= 0 /\ (c = 0 => info[j].idx > info[k].idx)
                   ELSE c <= 0 /\ (c = 0 => info[j].idx < info[k].idx)
        /\ reporter.games = SubSeq(info, 1, cursor - 1)
        /\ (pc = "done" /\ reporter.printed = "print") => reporter.games = info

\* Two games of equal size were delivered, sorted by size and reversed:
\* the second of subjects.valid first.
C9_Witness ==
    /\ GameTasks
    /\ pc = "done"
    /\ sort = [key |-> "size", reversed |-> TRUE]
    /\ Len(reporter.games) = 2
    /\ reporter.games[1].scan.size = reporter.games[2].scan.size
    /\ reporter.games[1].name # reporter.games[2].name
    /\ reporter.games[1].idx = 2

\* ---------------------------------------------------- back_up on its own

\* How many back_up calls are made on the game.
MaxBackups == 4

\* The largest limit given or configured.
MaxLimit == 2

\* The retention configured and the limits of the backup command.
LimitChoices ==
    [config : [full : 1..MaxLimit, differential : 0..MaxLimit],
     full_limit : {None} \cup {Some(v) : v \in 1..MaxLimit},
     differential_limit : {None} \cup {Some(v) : v \in 0..MaxLimit}]

\* The configured retention whatever the limits of the command.
ConfiguredRetention(l) == l.config

\* The retention with full_limit alone substituted.
RetentionWithoutDifferentialLimit(l) ==
    [full |-> IF l.full_limit # None THEN l.full_limit[1] ELSE l.config.full,
     differential |-> l.config.differential]

\* Lines 176-182: the configured retention with the limits given put in.
EffectiveRetention(l) ==
    [full |-> IF l.full_limit # None THEN l.full_limit[1] ELSE l.config.full,
     differential |-> IF l.differential_limit # None THEN l.differential_limit[1]
                      ELSE l.config.differential]

\* back_up, step 2: the kind of the backup to write.
BackupKind(m, r, merge, new_full) ==
    IF \/ m = <<>>
       \/ Len(m[Len(m)].children) >= r.differential
       \/ (~merge /\ new_full)
    THEN "Full"
    ELSE "Differential"

\* back_up, steps 3 to 6: the backup is written and the mapping updated.
InsertBackup(m, kind, id) ==
    IF kind = "Full" THEN Append(m, [id |-> id, children |-> <<>>])
    ELSE [m EXCEPT ![Len(m)].children = Append(@, id)]

\* back_up, step 7: the oldest fulls are deleted with their children.
RECURSIVE ForgetFulls(_, _)
ForgetFulls(m, r) ==
    IF Len(m) > r.full THEN ForgetFulls(Tail(m), r) ELSE m

\* back_up, step 7: the oldest differentials of a full are deleted.
RECURSIVE ForgetDifferentials(_, _)
ForgetDifferentials(children, r) ==
    IF Len(children) > r.differential THEN ForgetDifferentials(Tail(children), r)
    ELSE children

\* back_up, step 7: retention is enforced once the backup is written.
EnforceRetention(m, r) ==
    LET fulls == ForgetFulls(m, r)
    IN IF fulls = <<>> THEN fulls
       ELSE [fulls EXCEPT ![Len(fulls)].children = ForgetDifferentials(@, r)]

InitBackup ==
    /\ RunAtRest
    /\ pc = "layout"
    /\ result = NoResult
    /\ process = NoProcess
    /\ changes = <<>>
    /\ progress_bar = NoProgress
    /\ retention = DefaultRetention
    /\ mapping = <<>>
    /\ limits \in LimitChoices
    /\ calls = <<>>
    /\ cloud_args = NoCloudArgs
    /\ config = NoConfig
    /\ cloud_set = NoCloudSet

\* Lines 176-184: BackupLayout::new with the retention of the command.
NewLayout ==
    /\ pc = "layout"
    /\ retention' = EffectiveRetention(limits)
    /\ pc' = "back_up"
    /\ UNCHANGED <<result, runVars, process, changes, progress_bar, mapping, limits, calls,
                   cloudVars>>

\* One back_up call on the game (lines 272-274), with a changed file.
BackUp ==
    /\ pc = "back_up"
    /\ Len(calls) < MaxBackups
    /\ \E merge \in BOOLEAN, new_full \in BOOLEAN :
        LET id == Len(calls) + 1
            kind == BackupKind(mapping, retention, merge, new_full)
        IN /\ mapping' = EnforceRetention(InsertBackup(mapping, kind, id), retention)
           /\ calls' = Append(calls, [merge |-> merge, new_full |-> new_full, kind |-> kind])
    /\ UNCHANGED <<pc, result, runVars, process, changes, progress_bar, retention, limits,
                   cloudVars>>

NextBackup ==
    \/ NewLayout
    \/ BackUp

SpecBackup == InitBackup /\ [][NextBackup]_vars

\* ------------------------------------------------------------- cloud set

\* The remotes of CloudSetSubcommand (lines 602-668), None apart.
Remotes == {"Custom", "Box", "Dropbox", "Ftp", "GoogleDrive", "OneDrive", "Smb", "WebDav"}

\* The error of configure_remote dropped.
ConfigureRemoteIgnored(fails) == "store"

\* Line 731: the error of configure_remote is returned by the ? operator.
ConfigureRemoteChecked(fails) == IF fails THEN "return" ELSE "store"

\* config.save(): the configuration in memory is written out.
save(c) == [c EXCEPT !.disk = c.remote, !.saves = @ + 1]

\* run at line 600: the configuration is loaded, with or without a remote,
\* and a cloud set command is given; whether its remote needs configuration
\* and whether configure_remote would fail are Rclone's.
InitCloudSet ==
    /\ RunAtRest
    /\ pc = "cloud_set"
    /\ result = NoResult
    /\ process = NoProcess
    /\ changes = <<>>
    /\ progress_bar = NoProgress
    /\ retention = DefaultRetention
    /\ mapping = <<>>
    /\ limits = NoLimits
    /\ calls = <<>>
    /\ cloud_args = NoCloudArgs
    /\ \E before \in {None, Some("Box"), Some("Ftp")} :
          /\ config = [remote |-> before, disk |-> before, saves |-> 0]
          /\ cloud_set \in {[NoCloudSet EXCEPT !.before = before]} \cup
                [choice : Remotes, needs_configuration : BOOLEAN, fails : BOOLEAN,
                 before : {before}]

\* Lines 602-605 (cloud set none) and configure_cloud up to its call of
\* configure_remote (lines 729-731).
CloudSetStart ==
    /\ pc = "cloud_set"
    /\ IF cloud_set.choice = "none"
       THEN /\ config' = save([config EXCEPT !.remote = None])
            /\ pc' = "status"
       ELSE /\ pc' = IF cloud_set.needs_configuration THEN "configure_remote" ELSE "store"
            /\ UNCHANGED config
    /\ UNCHANGED <<result, runVars, process, changes, progress_bar, layoutVars, cloud_args,
                   cloud_set>>

\* configure_remote returns (line 731).
ConfigureRemoteReturn ==
    /\ pc = "configure_remote"
    /\ IF ConfigureRemoteChecked(cloud_set.fails) = "return"
       THEN Done(Err("UnableToConfigureCloud"))
       ELSE pc' = "store" /\ UNCHANGED result
    /\ UNCHANGED <<runVars, process, changes, progress_bar, layoutVars, cloudVars>>

\* Lines 733-735.
StoreRemote ==
    /\ pc = "store"
    /\ config' = save([config EXCEPT !.remote = Some(cloud_set.choice)])
    /\ pc' = "status"
    /\ UNCHANGED <<result, runVars, process, changes, progress_bar, layoutVars, cloud_args,
                   cloud_set>>

\* Lines 721-725.
CloudSetStatus ==
    /\ pc = "status"
    /\ Done(FinalStatus(failed))
    /\ UNCHANGED <<runVars, process, changes, progress_bar, layoutVars, cloudVars>>

NextCloudSet ==
    \/ CloudSetStart
    \/ ConfigureRemoteReturn
    \/ StoreRemote
    \/ CloudSetStatus

SpecCloudSet == InitCloudSet /\ [][NextCloudSet]_vars

\* ------------------------------------------------------ gui: the modal

\* How many roots a ConfirmAddMissingRoots theme lists at most.
MaxRoots == 2

\* The RootsConfig values a theme may list.
RootPool == {"r1", "r2"}

\* The Error values an Error theme may carry.
ErrorPool == {"ManifestInvalid", "CliUnrecognizedGames"}

\* Message (gui::common), as far as ModalTheme::message builds it.
BackupStart(p) == [kind |-> "BackupStart", preview |-> p, roots |-> <<>>]
RestoreStart(p) == [kind |-> "RestoreStart", preview |-> p, roots |-> <<>>]
ConfirmAddMissingRootsMessage(missing) ==
    [kind |-> "ConfirmAddMissingRoots", preview |-> FALSE, roots |-> missing]

\* ModalTheme (lines 19-25).
Theme(kind, error, roots) == [kind |-> kind, error |-> error, roots |-> roots]

ModalThemes ==
    {Theme("Error", e, <<>>) : e \in ErrorPool}
    \cup {Theme(k, "", <<>>) : k \in {"ConfirmBackup", "ConfirmRestore", "NoMissingRoots"}}
    \cup {Theme("ConfirmAddMissingRoots", "", r) : r \in SeqsUpTo(RootPool, MaxRoots)}

\* ModalTheme::variant (lines 28-33).
variant(theme) ==
    IF theme.kind \in {"Error", "NoMissingRoots"} THEN "Info" ELSE "Confirm"

\* A message that starts the operation as a preview.
message_as_preview(theme) ==
    CASE theme.kind = "ConfirmBackup" -> BackupStart(TRUE)
      [] theme.kind = "ConfirmRestore" -> RestoreStart(TRUE)
      [] theme.kind = "ConfirmAddMissingRoots" -> ConfirmAddMissingRootsMessage(theme.roots)
      [] OTHER -> Idle

\* ModalTheme::message (lines 47-54).
message(theme) ==
    CASE theme.kind = "ConfirmBackup" -> BackupStart(FALSE)
      [] theme.kind = "ConfirmRestore" -> RestoreStart(FALSE)
      [] theme.kind = "ConfirmAddMissingRoots" -> ConfirmAddMissingRootsMessage(theme.roots)
      [] OTHER -> Idle

\* A button: which one it is and what pressing it emits.
NewButton(which, on_press) == [which |-> which, on_press |-> on_press]

\* ModalComponent::view (lines 64-116): the row of buttons of the theme.
view(theme) ==
    LET positive_button == NewButton("positive", message(theme))
        negative_button == NewButton("negative", Idle)
    IN IF variant(theme) = "Info" THEN <<positive_button>>
       ELSE <<positive_button, negative_button>>

InitModal ==
    /\ RunAtRest
    /\ pc = "gui"
    /\ result = NoResult
    /\ process = NoProcess
    /\ changes = <<>>
    /\ progress_bar = NoProgress
    /\ retention = DefaultRetention
    /\ mapping = <<>>
    /\ limits = NoLimits
    /\ calls = <<>>
    /\ cloud_args = NoCloudArgs
    /\ config = NoConfig
    /\ cloud_set = NoCloudSet

\* All but the modal.
restVars == <<pc, result, sub, preview, backup, games_specified, disabled, subjects,
              reporter, duplicate_detector, should_sync_cloud_after, syncs, tasks, info,
              cursor, sort, failed, prepared, pure, games_len, force, prompt, process,
              changes, progress_bar, layoutVars, cloudVars>>

\* The application shows a modal: view renders the theme.
ShowModal ==
    /\ pc = "gui"
    /\ modal.theme.kind = "None"
    /\ \E theme \in ModalThemes :
          modal' = [modal EXCEPT !.theme = theme, !.buttons = view(theme), !.pressed = "none"]
    /\ UNCHANGED restVars

\* The user presses a button of the modal: its message is emitted.
PressButton ==
    /\ pc = "gui"
    /\ \E b \in DOMAIN modal.buttons :
          modal' = [modal EXCEPT !.pressed = modal.buttons[b].which,
                                 !.message = modal.buttons[b].on_press,
                                 !.buttons = <<>>]
    /\ UNCHANGED restVars

\* The application handles the message and the modal is closed.
CloseModal ==
    /\ pc = "gui"
    /\ modal.pressed # "none"
    /\ modal' = [modal EXCEPT !.theme = NoModal.theme, !.pressed = "none"]
    /\ UNCHANGED restVars

NextModal ==
    \/ ShowModal
    \/ PressButton
    \/ CloseModal

SpecModal == InitModal /\ [][NextModal]_vars

\* ---------------------------------------------------------------- C11

\* Whether a requested string names, as a Steam id, a game of the catalog.
SteamIdKnown(x, known) ==
    /\ ParseU32(x) # ParseErr
    /\ ParseU32(x) \in DOMAIN SteamIdsToNames
    /\ SteamIdsToNames[ParseU32(x)] \in Range(known)

\* C11: GameSubjects::new with by_steam_id and a request. Each requested
\* string that parses as a u32 the manifest maps to a known name puts that
\* name (not the string) in valid; every other requested string is in
\* invalid as it was given; nothing else is in either list. The deprecation
\* warning is printed exactly when by_steam_id is set.
C11_SubjectsBySteamId ==
    pure.applied =>
        /\ pure.warned <=> pure.by_steam_id
        /\ (pure.by_steam_id /\ pure.requested # <<>>) =>
              LET k == pure.known
                  r == pure.requested
                  o == pure.out
                  strings == Range(r) \cup Range(k) \cup Range(o.valid) \cup Range(o.invalid)
              IN /\ \A n \in strings :
                        Count(o.valid, n) =
                            Cardinality({i \in 1..Len(r) :
                                SteamIdKnown(r[i], k) /\ SteamIdsToNames[ParseU32(r[i])] = n})
                 /\ \A x \in strings :
                        Count(o.invalid, x) = IF SteamIdKnown(x, k) THEN 0 ELSE Count(r, x)
                 /\ Len(o.valid) + Len(o.invalid) = Len(r)

\* "+7" was resolved to "A", and "42", whose game "C" is not in the catalog,
\* was refused.
C11_Witness ==
    /\ pure.applied
    /\ pure.by_steam_id
    /\ pure.warned
    /\ pure.requested = <<StrPlus7, Str42>>
    /\ pure.known = <<NameB, NameA>>
    /\ pure.out = [valid |-> <<NameA>>, invalid |-> <<Str42>>]

\* ---------------------------------------------------------------- C12

\* The Change events of a list of events, in order.
RECURSIVE ChangesOf(_)
ChangesOf(evs) ==
    IF evs = <<>> THEN <<>>
    ELSE IF Head(evs).kind = "Change" THEN <<Head(evs).change>> \o ChangesOf(Tail(evs))
    ELSE ChangesOf(Tail(evs))

\* C12: when sync_cloud returns Ok, its change list is the Change events the
\* synchronizer emitted, each once and in emission order, those emitted
\* after the last process.events() included.
C12_EveryChangeReturned ==
    (pc = "done" /\ result = Ok) => changes = ChangesOf(process.emitted)

\* ---------------------------------------------------------------- C13

\* The safety half: a result only once the subprocess is no longer running,
\* Ok exactly after a successful exit, UnableToSynchronizeCloud after a
\* failed exit or a failed spawn.
SyncResultMatchesExit ==
    pc = "done" =>
        /\ process.status # "running"
        /\ result = Ok <=> process.status = "exited_ok"
        /\ process.status = "exited_err" => result = Err("UnableToSynchronizeCloud")
        /\ result = Err("UnableToSynchronizeCloud") => process.status \in {"exited_err", "none"}

\* While the subprocess runs, a drain is followed by a poll and a poll by a
\* drain.
SyncAlternates ==
    /\ (pc = "events" /\ pc' # pc) => pc' = "succeeded"
    /\ (pc = "succeeded" /\ process.status = "running" /\ pc' # pc) => pc' = "events"

\* C13: sync_cloud never returns while the subprocess runs, returns Ok after
\* a successful exit and UnableToSynchronizeCloud after a failed exit or a
\* failed spawn, alternates between process.events() and process.succeeded()
\* while the subprocess runs, and returns once the subprocess has exited.
C13_ReturnsOnExit ==
    /\ []SyncResultMatchesExit
    /\ [][SyncAlternates]_vars
    /\ (process.status \in {"exited_ok", "exited_err"}) ~> (pc = "done")

\* sync_cloud returned Ok with the two changes and the progress of a
\* subprocess that exited with success.
C13_Witness ==
    /\ pc = "done"
    /\ result = Ok
    /\ process.status = "exited_ok"
    /\ changes = <<"c1", "c2">>
    /\ progress_bar = [current |-> 1, max |-> 2]

\* ---------------------------------------------------------------- C14

\* A scan, a restore or a cloud sync has begun.
SomeTaskStarted == \E i \in DOMAIN tasks : tasks[i].st # "pending"

\* C14: a restore that reaches line 362 with a backup id and a number of
\* requested games other than one (none included) has returned
\* BackupIdWithMultipleGames, with no sync_cloud call made and no task
\* created, started or collected.
C14_BackupIdNeedsOneGame ==
    (sub = "restore" /\ backup # "None" /\ games_len # 1) =>
        /\ pc = "done"
        /\ result = Err("CliBackupIdWithMultipleGames")
        /\ syncs = <<>>
        /\ tasks = <<>>
        /\ info = <<>>
        /\ reporter = NewReporter

\* A restore by backup id with no game named was refused.
C14_Witness ==
    /\ sub = "restore"
    /\ backup = "id1"
    /\ games_len = 0
    /\ result = Err("CliBackupIdWithMultipleGames")

\* ---------------------------------------------------------------- C15

\* C15: a restore by backup id whose game's scan did not find that id (no
\* backup, or a backup with another id) never calls layout.restore for the
\* game and, once run has returned after the fan-out, has returned
\* InvalidBackupId and delivered no game to the Reporter.
C15_UnknownBackupIdFails ==
    (/\ sub = "restore"
     /\ backup # "None"
     /\ tasks # <<>>
     /\ EveryTaskReturned
     /\ \E i \in DOMAIN tasks : tasks[i].out.scan.backup # backup) =>
        /\ \A i \in DOMAIN tasks : tasks[i].out.did # "restore"
        /\ pc = "done" =>
              /\ result = Err("CliInvalidBackupId")
              /\ reporter.games = <<>>

\* ---------------------------------------------------------------- C16

\* A side effect was begun: target preparation, a cloud sync, a game task.
SideEffectBegun == prepared \/ syncs # <<>> \/ SomeTaskStarted

\* C16: in backup, restore, cloud upload and cloud download, a side effect
\* of a run with neither preview nor force was preceded by a confirmation
\* answered yes; a prompt that could not be shown ended the run with
\* UnableToRequestConfirmation and a declined prompt with Ok, both with no
\* side effect; with preview or force no prompt is made.
C16_ConfirmationFirst ==
    sub \in {"backup", "restore", "cloud_upload", "cloud_download"} =>
        /\ (preview \/ force) => prompt = "none"
        /\ (~preview /\ ~force /\ SideEffectBegun) => prompt = "Ok(true)"
        /\ (~preview /\ ~force /\ pc \notin {"load", "confirm"}
              /\ result # Err("ResourceUnavailable")) => prompt # "none"
        /\ prompt = "Err" =>
              /\ pc = "done"
              /\ result = Err("CliUnableToRequestConfirmation")
              /\ ~SideEffectBegun
        /\ prompt = "Ok(false)" =>
              /\ pc = "done"
              /\ result = Ok
              /\ ~SideEffectBegun

\* A backup without preview or force was confirmed, then prepared its target
\* and ran a task.
C16_Witness ==
    /\ sub = "backup"
    /\ ~preview
    /\ ~force
    /\ prompt = "Ok(true)"
    /\ prepared
    /\ \E i \in DOMAIN tasks : tasks[i].st = "done"

\* ---------------------------------------------------------------- C17

\* C17: in a backup that is not a preview, no sync_cloud call and no task
\* begins before prepare_backup_target was called, and when that call
\* failed run returned its error with no sync_cloud call and no task.
C17_TargetPreparedFirst ==
    (sub = "backup" /\ ~preview) =>
        /\ (syncs # <<>> \/ SomeTaskStarted) => prepared
        /\ (pc \notin {"load", "confirm", "prepare"}
              /\ result.tag \notin {"ResourceUnavailable", "CliUnableToRequestConfirmation"}
              /\ ~(prompt = "Ok(false)")) => prepared
        /\ result = Err("BackupTargetUnusable") =>
              /\ pc = "done"
              /\ prepared
              /\ syncs = <<>>
              /\ tasks = <<>>

\* prepare_backup_target failed: the backup returned its error.
C17_Witness ==
    /\ sub = "backup"
    /\ ~preview
    /\ prepared
    /\ pc = "done"
    /\ result = Err("BackupTargetUnusable")

\* ---------------------------------------------------------------- C20

\* C20: a backup that returned UnrecognizedGames has not called
\* prepare_backup_target.
C20_AbortLeavesTargetUntouched ==
    (sub = "backup" /\ result.tag = "CliUnrecognizedGames") => ~prepared

\* ---------------------------------------------------------------- C18

\* The limit in force: the one given to the command, else the
\* configured one.
LimitOr(given, configured) == IF given = <<>> THEN configured ELSE given[1]

\* C18: after any sequence of back_up calls the game has at most as many
\* fulls as the full limit (full_limit if given, else the configured one)
\* and each full at most as many differentials as the differential limit
\* (differential_limit if given, else the configured one).
C18_RetentionBound ==
    pc = "back_up" =>
        /\ Len(mapping) <= LimitOr(limits.full_limit, limits.config.full)
        /\ \A i \in 1..Len(mapping) :
              Len(mapping[i].children)
                  <= LimitOr(limits.differential_limit, limits.config.differential)

\* With limits below the configured retention, four calls left one full at
\* its limit of one differential.
C18_Witness ==
    /\ pc = "back_up"
    /\ limits.config = [full |-> 2, differential |-> 2]
    /\ limits.full_limit = <<1>>
    /\ limits.differential_limit = <<1>>
    /\ Len(calls) = 4
    /\ Len(mapping) = 1
    /\ Len(mapping[1].children) = 1

\* ---------------------------------------------------------------- C19

\* The scenario: one full and two differentials retained, and so far only
\* calls that merge and ask for no new full.
ChainScenario ==
    /\ pc = "back_up"
    /\ LimitOr(limits.full_limit, limits.config.full) = 1
    /\ LimitOr(limits.differential_limit, limits.config.differential) = 2
    /\ \A i \in 1..Len(calls) : calls[i].merge /\ ~calls[i].new_full

\* C19 as stated: after three calls the history is the first full with the
\* second and third backups as its differentials, and the fourth call
\* rotates them: the same full with the third and fourth backups.
C19_FourthBackupRotates ==
    ChainScenario =>
        /\ Len(calls) = 3 => mapping = <<[id |-> 1, children |-> <<2, 3>>]>>
        /\ Len(calls) = 4 => mapping = <<[id |-> 1, children |-> <<3, 4>>]>>

\* C19, amended: after three calls the history is the first full with two
\* differentials; the fourth call finds the differentials at capacity and
\* writes a full, and retention deletes the first full with its
\* differentials: the history is the fourth backup alone.
C19_FourthBackupIsFull ==
    ChainScenario =>
        /\ Len(calls) = 3 => mapping = <<[id |-> 1, children |-> <<2, 3>>]>>
        /\ Len(calls) = 4 =>
              /\ calls[4].kind = "Full"
              /\ mapping = <<[id |-> 4, children |-> <<>>]>>

\* The fourth call of the scenario was made, with the limits given on the
\* command line over another configuration.
C19_Witness ==
    /\ ChainScenario
    /\ limits.config = [full |-> 2, differential |-> 1]
    /\ Len(calls) = 4
    /\ Len(mapping) = 1

\* ---------------------------------------------------------------- C21

\* C21: in a backup or restore with preview set, prepare_backup_target is
\* not called, no task calls back_up or layout.restore, and no sync_cloud
\* call is made with Finality::Final.
C21_PreviewMutatesNothing ==
    (sub \in {"backup", "restore"} /\ preview) =>
        /\ ~prepared
        /\ \A i \in DOMAIN tasks : tasks[i].st # "op" /\ tasks[i].out.did = "none"
        /\ \A k \in DOMAIN syncs : syncs[k].finality # "Final"

\* ---------------------------------------------------------------- C22

\* C22: in a backup or restore, a task that returned has decided Ignored
\* exactly when its game is disabled and no game was named; an Ignored game
\* was scanned but neither backed up nor restored; with games named every
\* game is Processed; and a restore task whose scan found no backup did not
\* call layout.restore.
C22_IgnoredOnlyWhenUnnamed ==
    sub \in {"backup", "restore"} =>
        \A i \in DOMAIN tasks :
            tasks[i].st = "done" =>
                LET t == tasks[i].out
                IN /\ t.decision = "Ignored" <=>
                        (subjects.valid[i] \in disabled /\ ~games_specified)
                   /\ t.decision \in {"Ignored", "Processed"}
                   /\ t.decision = "Ignored" => (t.scan.made /\ t.did = "none")
                   /\ games_specified => t.decision = "Processed"
                   /\ (sub = "restore" /\ t.scan.backup = "None") => t.did = "none"

\* With no game named, the disabled game "A" was scanned and Ignored, and
\* with it an enabled game was backed up.
C22_Witness ==
    /\ sub = "backup"
    /\ ~preview
    /\ ~games_specified
    /\ disabled = {NameA}
    /\ \E i \in DOMAIN tasks :
          /\ tasks[i].st = "done"
          /\ subjects.valid[i] = NameA
          /\ tasks[i].out.decision = "Ignored"
          /\ tasks[i].out.scan.made
    /\ \E j \in DOMAIN tasks :
          /\ tasks[j].st = "done"
          /\ tasks[j].out.decision = "Processed"
          /\ tasks[j].out.did = "back_up"

\* ---------------------------------------------------------------- C23

\* C23: inside backup and restore, once the flags were read, a sync_cloud
\* call was made exactly when cloud_sync is set, or neither flag is set and
\* the configuration enables synchronization and passes
\* validate_cloud_config; with no_cloud_sync alone none is ever made.
C23_SyncIffFlag ==
    pc # "cloud_pre" =>
        /\ syncs # <<>> <=>
              \/ cloud_args.cloud_sync
              \/ /\ ~cloud_args.cloud_sync
                 /\ ~cloud_args.no_cloud_sync
                 /\ cloud_args.synchronize
                 /\ cloud_args.valid
        /\ (cloud_args.no_cloud_sync /\ ~cloud_args.cloud_sync) => syncs = <<>>

\* Both flags set over a configuration that disables synchronization: the
\* preview download was made.
C23_Witness ==
    /\ cloud_args = [cloud_sync |-> TRUE, no_cloud_sync |-> TRUE, synchronize |-> FALSE,
                     valid |-> FALSE]
    /\ Len(syncs) >= 1
    /\ syncs[1].direction = "Download"
    /\ pc = "fanout"

\* ---------------------------------------------------------------- C24

\* C24: once cloud set has returned: if the remote needed configuration and
\* configure_remote failed, run returned UnableToConfigureCloud with
\* config.cloud.remote as it was and no save; cloud set none cleared the
\* remote and saved; in every other case the chosen remote is in
\* config.cloud.remote and was saved.
C24_CloudSetStoresRemote ==
    pc = "done" =>
        IF cloud_set.choice = "none"
        THEN /\ result = Ok
             /\ config = [remote |-> <<>>, disk |-> <<>>, saves |-> 1]
        ELSE IF cloud_set.needs_configuration /\ cloud_set.fails
        THEN /\ result = Err("UnableToConfigureCloud")
             /\ config = [remote |-> cloud_set.before, disk |-> cloud_set.before, saves |-> 0]
        ELSE /\ result = Ok
             /\ config = [remote |-> <<cloud_set.choice>>, disk |-> <<cloud_set.choice>>,
                          saves |-> 1]

\* Over a configuration whose remote was Box, cloud set ftp failed to
\* configure the remote: Box is still there, unsaved.
C24_Witness ==
    /\ pc = "done"
    /\ cloud_set.choice = "Ftp"
    /\ cloud_set.needs_configuration
    /\ cloud_set.fails
    /\ cloud_set.before = <<"Box">>
    /\ config.remote = <<"Box">>
    /\ config.saves = 0
    /\ result = Err("UnableToConfigureCloud")

\* ---------------------------------------------------------------- C25

\* C25: a modal on screen shows the positive button alone for the Info
\* themes (Error, NoMissingRoots) and the positive then the negative button
\* for the Confirm themes; once a button was pressed, the message emitted is
\* Idle for the negative button, and for the positive button Idle for the
\* Info themes, BackupStart with preview false for ConfirmBackup,
\* RestoreStart with preview false for ConfirmRestore, and
\* ConfirmAddMissingRoots with the theme's roots for ConfirmAddMissingRoots;
\* so a BackupStart or RestoreStart just emitted comes from the positive
\* button of ConfirmBackup or ConfirmRestore.
C25_ModalButtons ==
    LET k == modal.theme.kind
        info_theme == k \in {"Error", "NoMissingRoots"}
    IN /\ (k # "None" /\ modal.pressed = "none") =>
              [i \in DOMAIN modal.buttons |-> modal.buttons[i].which] =
                  (IF info_theme THEN <<"positive">> ELSE <<"positive", "negative">>)
       /\ modal.pressed = "negative" =>
              /\ modal.message = [kind |-> "Idle", preview |-> FALSE, roots |-> <<>>]
              /\ ~info_theme
       /\ modal.pressed = "positive" =>
              /\ modal.message.kind =
                    (CASE k = "ConfirmBackup" -> "BackupStart"
                       [] k = "ConfirmRestore" -> "RestoreStart"
                       [] k = "ConfirmAddMissingRoots" -> "ConfirmAddMissingRoots"
                       [] OTHER -> "Idle")
              /\ modal.message.preview = FALSE
              /\ modal.message.roots = modal.theme.roots
       /\ (modal.pressed # "none" /\ modal.message.kind = "BackupStart") =>
              (modal.pressed = "positive" /\ k = "ConfirmBackup")
       /\ (modal.pressed # "none" /\ modal.message.kind = "RestoreStart") =>
              (modal.pressed = "positive" /\ k = "ConfirmRestore")

\* The positive button of the ConfirmBackup modal was pressed: BackupStart
\* was emitted.
C25_Witness ==
    /\ modal.theme.kind = "ConfirmBackup"
    /\ modal.pressed = "positive"
    /\ modal.message = [kind |-> "BackupStart", preview |-> FALSE, roots |-> <<>>]

====
